---- MODULE Spec2Model ----
(***************************************************************************)
(* Model of src/vc.py: the voice-conversion request pipeline `mainpipe`    *)
(* with its helpers validate_audio_files, generate_random_tag and          *)
(* configure_converter.                                                    *)
(*                                                                         *)
(* Python strings are sequences of one-character strings, so that          *)
(* str.endswith, pathlib's parsing and f-string concatenation are computed *)
(* rather than assumed.  Fixed literal texts of messages are kept as one   *)
(* element each ("Conversion failed: ").                                   *)
(*                                                                         *)
(* vc.py reads the module globals `librosa`, `random` and `MODELS` but     *)
(* binds none of them (lines 1-5 import only os, typing, pathlib, time and *)
(* BaseLoader).  A global is looked up when the line runs; the namespace   *)
(* the module runs in is therefore part of the state (`bound`).  bound={}  *)
(* is the module exactly as written; the other values are the module       *)
(* after the embedding program has put the collaborators in its namespace. *)
(* A read of an unbound global raises NameError.                           *)
(*                                                                         *)
(* External collaborators (duration probe, converter) either return or     *)
(* raise an error derived from Exception, which is what Python's library   *)
(* contract asks of every non-system-exiting error.                        *)
(***************************************************************************)
EXTENDS Integers, Sequences, FiniteSets, TLC

\* ------------------------------------------------------------------ bounds
MaxFiles == 2
MaxModels == 2
MaxResults == 2

\* ------------------------------------------------------- program constants
RandLow == 10000000
RandHigh == 99999999
Mp3Rate == 44100
DefaultRate == 0
ParallelWorkers == 8

\* --------------------------------------------------------------- strings
Slash == "/"
Digit == <<"0", "1", "2", "3", "4", "5", "6", "7", "8", "9">>

\* str.endswith(suffix)
EndsWith(s, suffix) ==
    /\ Len(s) >= Len(suffix)
    /\ SubSeq(s, Len(s) - Len(suffix) + 1, Len(s)) = suffix

StartsWith(s, prefix) ==
    /\ Len(s) >= Len(prefix)
    /\ SubSeq(s, 1, Len(prefix)) = prefix

\* `needle in haystack` for strings
Contains(hay, needle) ==
    \E i \in 1..(Len(hay) - Len(needle) + 1) :
        SubSeq(hay, i, i + Len(needle) - 1) = needle

\* str(n) for a natural number
RECURSIVE IntStr(_)
IntStr(n) == IF n < 10 THEN <<Digit[n + 1]>>
             ELSE Append(IntStr(n \div 10), Digit[(n % 10) + 1])

Mp3Ext == <<".", "m", "p", "3">>
PthExt == <<".", "p", "t", "h">>

\* ------------------------------------------------------------ file system
Cwd == <<"/", "w">>

\* pathlib parsing of a POSIX path: the components between slashes, empty
\* and "." components dropped
RECURSIVE Parts(_, _, _)
Parts(s, i, cur) ==
    LET done == IF cur = <<>> \/ cur = <<".">> THEN <<>> ELSE <<cur>>
    IN  IF i > Len(s) THEN done
        ELSE IF s[i] = Slash THEN done \o Parts(s, i + 1, <<>>)
        ELSE Parts(s, i + 1, Append(cur, s[i]))

RECURSIVE Join(_)
Join(parts) ==
    IF parts = <<>> THEN <<>>
    ELSE IF Len(parts) = 1 THEN parts[1]
    ELSE parts[1] \o <<Slash>> \o Join(Tail(parts))

IsAnchored(s) == Len(s) > 0 /\ s[1] = Slash

\* str(Path(file_path).absolute())
Absolute(file_path) ==
    LET body == Join(Parts(file_path, 1, <<>>))
    IN  IF IsAnchored(file_path) THEN <<Slash>> \o body
        ELSE IF body = <<>> THEN Cwd
        ELSE Cwd \o <<Slash>> \o body

\* the files present on the accessible file system
ExistingFiles ==
    { <<"/", "w", "/", "a", ".", "m", "p", "3">>,
      <<"/", "w", "/", "x", "m", "p", "3">>,
      <<"/", "d", "/", "b", ".", "w", "a", "v">>,
      Cwd }

\* Path(file_path).exists()
Exists(file_path) == Absolute(file_path) \in ExistingFiles

\* the path values a caller passes
Paths ==
    { <<"a", ".", "m", "p", "3">>,
      <<".", "/", "x", "m", "p", "3">>,
      <<"/", "d", "/", "b", ".", "w", "a", "v">>,
      <<"c", ".", "m", "p", "3">>,
      <<"/", "d", "/", "e">> }

\* ------------------------------------------------------------- exceptions
NoExc == [type |-> "none", msg |-> <<>>]
Exc(type, msg) == [type |-> type, msg |-> msg]
AudioConverterError(msg) == Exc("AudioConverterError", msg)
NameError(name) == Exc("NameError", <<"name '", name, "' is not defined">>)

Ok(v) == [ok |-> TRUE, val |-> v, exc |-> NoExc]
Raise(e) == [ok |-> FALSE, val |-> <<>>, exc |-> e]

\* ---------------------------------------------------- validate_audio_files
NoFiles == [kind |-> "none", str |-> <<>>, list |-> <<>>]
StrFiles(s) == [kind |-> "str", str |-> s, list |-> <<>>]
ListFiles(l) == [kind |-> "list", str |-> <<>>, list |-> l]

\* `not files`: None, "" and [] are falsy
Falsy(files) ==
    \/ files.kind = "none"
    \/ files.kind = "str" /\ files.str = <<>>
    \/ files.kind = "list" /\ files.list = <<>>

\* the for loop of lines 30-37
\* variants of the loop: one that passes over a missing file, one that keeps
\* the path as given
RECURSIVE ValidateLoopSkip(_, _, _)
ValidateLoopSkip(files, i, valid_files) ==
    IF i > Len(files) THEN Ok(valid_files)
    ELSE IF ~Exists(files[i]) THEN ValidateLoopSkip(files, i + 1, valid_files)
    ELSE ValidateLoopSkip(files, i + 1, Append(valid_files, Absolute(files[i])))

RECURSIVE ValidateLoopRaw(_, _, _)
ValidateLoopRaw(files, i, valid_files) ==
    IF i > Len(files) THEN Ok(valid_files)
    ELSE IF ~Exists(files[i])
         THEN Raise(AudioConverterError(<<"Audio file not found: ">> \o files[i]))
    ELSE ValidateLoopRaw(files, i + 1, Append(valid_files, files[i]))

RECURSIVE ValidateLoop(_, _, _)
ValidateLoop(files, i, valid_files) ==
    IF i > Len(files) THEN Ok(valid_files)
    ELSE IF ~Exists(files[i])
         THEN Raise(AudioConverterError(<<"Audio file not found: ">> \o files[i]))
    ELSE ValidateLoop(files, i + 1, Append(valid_files, Absolute(files[i])))

validate_audio_files(files) ==
    IF Falsy(files) THEN Raise(AudioConverterError(<<"No audio files provided">>))
    ELSE ValidateLoop(IF files.kind = "str" THEN <<files.str>> ELSE files.list,
                      1, <<>>)

\* ------------------------------------------------------ generate_random_tag
generate_random_tag(n) == <<"USER_">> \o IntStr(n)

\* the values random.randint is sampled at
RandSamples == {RandLow, RandHigh}

\* ------------------------------------------------------------ the registry
ModelNames == { <<"X">>, <<"Y">> }

Entries ==
    { [model_name |-> <<"X">>, model |-> <<"w", ".", "p", "t", "h">>, index |-> <<"i", "1">>],
      [model_name |-> <<"X">>, model |-> <<"w", ".", "o", "n", "n", "x">>, index |-> <<"i", "2">>],
      [model_name |-> <<"Y">>, model |-> <<"v", ".", "p", "t", "h">>, index |-> <<"i", "3">>] }

SeqsUpTo(S, n) == UNION { [1..k -> S] : k \in 0..n }

\* next((m for m in MODELS if m["model_name"] == model), None); <<>> is None
RECURSIVE FirstMatch(_, _, _)
FirstMatch(models, name, i) ==
    IF i > Len(models) THEN <<>>
    ELSE IF models[i].model_name = name THEN <<models[i]>>
    ELSE FirstMatch(models, name, i + 1)

\* model_config["model"].endswith(".pth"); the variant omits the test
ModelFileUnchecked(model_config) == TRUE
ModelFileOk(model_config) == EndsWith(model_config.model, PthExt)

\* ------------------------------------------------------ configure_converter
\* line 51; the variant looks at the last file instead of the first
sample_rateLastFile(audio_files) ==
    IF EndsWith(audio_files[Len(audio_files)], Mp3Ext) THEN Mp3Rate ELSE DefaultRate
sample_rate(audio_files) ==
    IF EndsWith(audio_files[1], Mp3Ext) THEN Mp3Rate ELSE DefaultRate

\* the keyword arguments of converter.apply_conf
ConfArgs(tag, model_config, params, audio_files) ==
    [ tag |-> tag,
      file_model |-> model_config.model,
      file_index |-> model_config.index,
      params |-> params,
      audio_files |-> audio_files,
      resample_sr |-> sample_rate(audio_files) ]

\* the arguments of converter(...); the variant allows overwriting
ConvertArgsOverwrite(audio_files, tag) ==
    [ audio_files |-> audio_files, tag |-> tag,
      overwrite |-> TRUE, parallel_workers |-> ParallelWorkers ]
ConvertArgs(audio_files, tag) ==
    [ audio_files |-> audio_files, tag |-> tag,
      overwrite |-> FALSE, parallel_workers |-> ParallelWorkers ]

\* what the converter hands back
ResultItems == {"r1", "r2"}

\* result[0]; the variant yields None for an empty result
ExtractFirstOrNone(result) ==
    IF result = <<>> THEN Ok("None") ELSE Ok(result[1])
ExtractFirst(result) ==
    IF result = <<>> THEN Raise(Exc("IndexError", <<"list index out of range">>))
    ELSE Ok(result[1])

\* except Exception as e: raise AudioConverterError(f"Conversion failed: {str(e)}")
\* the variant lets an AudioConverterError through as it is
WrapPassThrough(e) ==
    IF e.type = "AudioConverterError" THEN e
    ELSE AudioConverterError(<<"Conversion failed: ">> \o e.msg)
Wrap(e) == AudioConverterError(<<"Conversion failed: ">> \o e.msg)

\* ------------------------------------------------------------------ state
VARIABLES
    bound,        \* the globals among librosa, random, MODELS that are bound
    MODELS,       \* the registry
    model,        \* argument: model name
    files_in,     \* argument: audio_files as passed
    params,       \* arguments pitch_alg, pitch_lvl, index_inf, r_m_f, e_r, c_b_p
    pc,           \* the stage mainpipe is at
    audio_files,  \* local: the validated list
    random_tag,   \* local
    model_config, \* local: <<>> or <<entry>>
    result,       \* local: what the converter returned
    vres,         \* what validate_audio_files returned or raised
    cause,        \* the exception caught at line 130
    raised,       \* the exception that leaves mainpipe
    retval,       \* <<>> or <<the value returned>>
    stages,       \* the stages entered so far
    confCalls,    \* the calls of converter.apply_conf
    convCalls,    \* the calls of converter(...)
    extFailed,    \* a collaborator that was called raised
    registry0     \* the registry as it was when mainpipe was called

vars == << bound, MODELS, model, files_in, params, pc, audio_files, random_tag,
           model_config, result, vres, cause, raised, retval, stages,
           confCalls, convCalls, extFailed, registry0 >>

Globals == {"librosa", "random", "MODELS"}

ParamSets == { <<"rmvpe", "0">>, <<"pm", "3">> }

FileInputs ==
    {NoFiles, StrFiles(<<>>)}
    \cup { StrFiles(p) : p \in Paths }
    \cup { ListFiles(l) : l \in SeqsUpTo(Paths, MaxFiles) }

Init ==
    /\ bound \in SUBSET Globals
    /\ MODELS \in SeqsUpTo(Entries, MaxModels)
    /\ ("MODELS" \notin bound => MODELS = <<>>)
    /\ model \in ModelNames
    /\ files_in \in FileInputs
    /\ params \in ParamSets
    /\ pc = "Validating"
    /\ audio_files = <<>>
    /\ random_tag = <<>>
    /\ model_config = <<>>
    /\ result = <<>>
    /\ vres = Ok(<<>>)
    /\ cause = NoExc
    /\ raised = NoExc
    /\ retval = <<>>
    /\ stages = <<"Validating">>
    /\ confCalls = <<>>
    /\ convCalls = <<>>
    /\ extFailed = FALSE
    /\ registry0 = MODELS

\* lines 130-131: the failure of a stage ends the call
Fail(e) ==
    /\ pc' = "Failed"
    /\ cause' = e
    /\ raised' = Wrap(e)
    /\ stages' = Append(stages, "Failed")

Goto(stage) ==
    /\ pc' = stage
    /\ stages' = Append(stages, stage)
    /\ UNCHANGED <<cause, raised>>

Inputs == <<bound, MODELS, model, files_in, params, registry0>>

\* line 88
Validate ==
    /\ pc = "Validating"
    /\ vres' = validate_audio_files(files_in)
    /\ IF vres'.ok
       THEN audio_files' = vres'.val /\ Goto("ProbingDuration")
       ELSE Fail(vres'.exc) /\ UNCHANGED audio_files
    /\ UNCHANGED <<Inputs, random_tag, model_config, result, retval,
                   confCalls, convCalls, extFailed>>

\* lines 91-92
ProbeDuration ==
    /\ pc = "ProbingDuration"
    /\ IF "librosa" \notin bound
       THEN Fail(NameError("librosa")) /\ UNCHANGED extFailed
       ELSE \/ Goto("Tagging") /\ UNCHANGED extFailed
            \/ Fail(Exc("Exception", <<"probe failed">>)) /\ extFailed' = TRUE
    /\ UNCHANGED <<Inputs, audio_files, random_tag, model_config, result, vres,
                   retval, confCalls, convCalls>>

\* line 95
Tag ==
    /\ pc = "Tagging"
    /\ IF "random" \notin bound
       THEN Fail(NameError("random")) /\ UNCHANGED random_tag
       ELSE \E n \in RandSamples :
                /\ random_tag' = generate_random_tag(n)
                /\ Goto("ResolvingModel")
    /\ UNCHANGED <<Inputs, audio_files, model_config, result, vres, retval,
                   confCalls, convCalls, extFailed>>

\* lines 98-107
ResolveModel ==
    /\ pc = "ResolvingModel"
    /\ IF "MODELS" \notin bound
       THEN Fail(NameError("MODELS")) /\ UNCHANGED model_config
       ELSE /\ model_config' = FirstMatch(MODELS, model, 1)
            /\ IF model_config' = <<>>
               THEN Fail(AudioConverterError(<<"Model not found: ">> \o model))
               ELSE IF ~ModelFileOk(model_config'[1])
               THEN Fail(AudioConverterError(<<"Invalid model file", " (must be .pth)">>))
               ELSE Goto("AssemblingConfig")
    /\ UNCHANGED <<Inputs, audio_files, random_tag, result, vres, retval,
                   confCalls, convCalls, extFailed>>

\* lines 110-124 and configure_converter, lines 51-53
AssembleConfig ==
    /\ pc = "AssemblingConfig"
    /\ confCalls' = Append(confCalls,
                           ConfArgs(random_tag, model_config[1], params, audio_files))
    /\ \/ Goto("Converting") /\ UNCHANGED extFailed
       \/ Fail(Exc("Exception", <<"apply_conf failed">>)) /\ extFailed' = TRUE
    /\ UNCHANGED <<Inputs, audio_files, random_tag, model_config, result, vres,
                   retval, convCalls>>

\* line 125
Convert ==
    /\ pc = "Converting"
    /\ convCalls' = Append(convCalls, ConvertArgs(audio_files, random_tag))
    /\ \/ \E r \in SeqsUpTo(ResultItems, MaxResults) :
            /\ result' = r
            /\ Goto("ExtractingResult")
            /\ UNCHANGED extFailed
       \/ /\ Fail(Exc("Exception", <<"convert failed">>))
          /\ extFailed' = TRUE
          /\ UNCHANGED result
    /\ UNCHANGED <<Inputs, audio_files, random_tag, model_config, vres, retval,
                   confCalls>>

\* lines 127-128
ExtractResult ==
    /\ pc = "ExtractingResult"
    /\ LET r == ExtractFirst(result)
       IN  IF r.ok
           THEN retval' = <<r.val>> /\ Goto("Done")
           ELSE Fail(r.exc) /\ UNCHANGED retval
    /\ UNCHANGED <<Inputs, audio_files, random_tag, model_config, result, vres,
                   confCalls, convCalls, extFailed>>

Next ==
    \/ Validate
    \/ ProbeDuration
    \/ Tag
    \/ ResolveModel
    \/ AssembleConfig
    \/ Convert
    \/ ExtractResult

Spec == Init /\ [][Next]_vars

Terminated == pc \in {"Done", "Failed"}

\* ---------------------------------------------------------------- claims
AllStages == << "Validating", "ProbingDuration", "Tagging", "ResolvingModel",
                "AssemblingConfig", "Converting", "ExtractingResult", "Done" >>

\* the input as the sequence validate_audio_files iterates over
InputList == IF files_in.kind = "str" THEN <<files_in.str>> ELSE files_in.list

Validated == pc # "Validating"

SomeMissing == \E i \in 1..Len(InputList) : ~Exists(InputList[i])

FirstMissing ==
    InputList[CHOOSE i \in 1..Len(InputList) :
                 /\ ~Exists(InputList[i])
                 /\ \A j \in 1..(i - 1) : Exists(InputList[j])]

\* the stage that was running when the call failed
FailedAt == stages[Len(stages) - 1]

IsConversionFailed(e) ==
    /\ e.type = "AudioConverterError"
    /\ StartsWith(e.msg, <<"Conversion failed: ">>)

\* C1: every call of mainpipe ends either in Done with a returned value and no
\* error, or in Failed with no value and one AudioConverterError whose message
\* is "Conversion failed: " followed by the message of the error that was
\* caught; no inner error leaves the call as it was raised, and nothing is
\* returned or raised before the call ends.
C1_UniformOutcome ==
    /\ pc \in {"Done", "Failed"}
       \/ (retval = <<>> /\ raised = NoExc /\ cause = NoExc)
    /\ pc = "Done" => Len(retval) = 1 /\ raised = NoExc /\ cause = NoExc
    /\ pc = "Failed" =>
          /\ retval = <<>>
          /\ cause # NoExc
          /\ IsConversionFailed(raised)
          /\ raised.msg = <<"Conversion failed: ">> \o cause.msg
          /\ raised # cause

C1_Witness ==
    /\ pc = "Failed"
    /\ cause.type = "AudioConverterError"
    /\ raised.msg = <<"Conversion failed: ">> \o cause.msg

\* C2: a call with one existing audio file given as a single value and a model
\* whose first registry entry has a .pth weights path, in which no collaborator
\* raises and the converter returns a non-empty sequence, ends in Done after
\* every stage in order and returns the first element of the converter's result.
C2_EndToEndSuccess ==
    ( /\ pc \in {"Done", "Failed"}
      /\ files_in.kind = "str" /\ files_in.str # <<>> /\ Exists(files_in.str)
      /\ "MODELS" \in bound
      /\ FirstMatch(MODELS, model, 1) # <<>>
      /\ EndsWith(FirstMatch(MODELS, model, 1)[1].model, PthExt)
      /\ ~extFailed
      /\ (convCalls # <<>> => result # <<>>) )
    => /\ pc = "Done"
       /\ stages = AllStages
       /\ retval = <<result[1]>>

\* C3: with valid audio input, no collaborator raising and a registry that
\* holds no entry of the requested name, the call fails with a ConversionFailed
\* error whose message contains "Model not found: <name>"; and an entry that
\* was resolved is the first registry entry of that name.
C3_ModelNotFound ==
    /\ ( /\ pc \in {"Done", "Failed"}
         /\ vres.ok /\ ~extFailed
         /\ "MODELS" \in bound
         /\ \A i \in 1..Len(MODELS) : MODELS[i].model_name # model )
       => /\ pc = "Failed"
          /\ IsConversionFailed(raised)
          /\ Contains(raised.msg, <<"Model not found: ">> \o model)
    /\ model_config # <<>> =>
          \E i \in 1..Len(MODELS) :
              /\ MODELS[i] = model_config[1]
              /\ MODELS[i].model_name = model
              /\ \A j \in 1..(i - 1) : MODELS[j].model_name # model

\* C4: with valid audio input and no collaborator raising, when the first
\* registry entry of the requested name has a weights path that does not end
\* in .pth, the call fails with a ConversionFailed error whose message
\* contains "Invalid model file", whatever later entries hold, and the
\* converter is neither configured nor invoked.
C4_InvalidModelFile ==
    ( /\ pc \in {"Done", "Failed"}
      /\ vres.ok /\ ~extFailed
      /\ "MODELS" \in bound
      /\ FirstMatch(MODELS, model, 1) # <<>>
      /\ ~EndsWith(FirstMatch(MODELS, model, 1)[1].model, PthExt) )
    => /\ pc = "Failed"
       /\ IsConversionFailed(raised)
       /\ Contains(raised.msg, <<"Invalid model file">>)
       /\ confCalls = <<>> /\ convCalls = <<>>

\* C5: validate_audio_files raises "No audio files provided" for None, "" and
\* the empty sequence; for a non-empty input with a path that does not exist
\* it raises "Audio file not found: <path>" for the first such path in input
\* order, and hands back no list.
C5_ValidatorFailures ==
    Validated =>
        /\ Falsy(files_in) =>
              /\ ~vres.ok
              /\ vres.val = <<>>
              /\ vres.exc = AudioConverterError(<<"No audio files provided">>)
        /\ (~Falsy(files_in) /\ SomeMissing) =>
              /\ ~vres.ok
              /\ vres.val = <<>>
              /\ vres.exc.type = "AudioConverterError"
              /\ vres.exc.msg = <<"Audio file not found: ">> \o FirstMissing

C5_Witness ==
    /\ Validated
    /\ files_in.kind = "list" /\ Len(files_in.list) = 2
    /\ Exists(files_in.list[1]) /\ ~Exists(files_in.list[2])
    /\ ~vres.ok
    /\ vres.exc.msg = <<"Audio file not found: ">> \o files_in.list[2]

\* C6: for a non-empty input, single value or sequence, whose paths all exist,
\* validate_audio_files returns a sequence as long as the input whose element
\* i is an absolute path in normal form made of the working directory's
\* components (for a relative input) followed by the components of input i.
C6_ValidatorSuccess ==
    (Validated /\ ~Falsy(files_in) /\ ~SomeMissing) =>
        /\ vres.ok
        /\ Len(vres.val) = Len(InputList)
        /\ (files_in.kind = "str" => Len(vres.val) = 1)
        /\ \A i \in 1..Len(InputList) :
              /\ IsAnchored(vres.val[i])
              /\ vres.val[i] = <<Slash>> \o Join(Parts(vres.val[i], 1, <<>>))
              /\ Parts(vres.val[i], 1, <<>>) =
                    (IF IsAnchored(InputList[i]) THEN <<>> ELSE Parts(Cwd, 1, <<>>))
                    \o Parts(InputList[i], 1, <<>>)

C6_Witness ==
    /\ Validated
    /\ files_in.kind = "list" /\ Len(files_in.list) = 2
    /\ ~IsAnchored(files_in.list[1]) /\ IsAnchored(files_in.list[2])
    /\ files_in.list[1] # files_in.list[2]
    /\ vres.ok /\ Len(vres.val) = 2

\* C7: every apply_conf call gets resample_sr 44100 when the first file of
\* the validated list ends in ".mp3" and 0 otherwise, whatever the other
\* files are.
C7_ResampleRate ==
    \A i \in 1..Len(confCalls) :
        /\ confCalls[i].audio_files = vres.val
        /\ EndsWith(vres.val[1], Mp3Ext) => confCalls[i].resample_sr = 44100
        /\ ~EndsWith(vres.val[1], Mp3Ext) => confCalls[i].resample_sr = 0

C7_Witness ==
    /\ Len(confCalls) = 1
    /\ Len(vres.val) = 2
    /\ ~EndsWith(vres.val[1], Mp3Ext) /\ EndsWith(vres.val[2], Mp3Ext)
    /\ confCalls[1].resample_sr = 0

\* C8: when the converter returned an empty sequence the call ends in Failed
\* with a ConversionFailed error (the IndexError of result[0], wrapped) and
\* returns no value.
C8_EmptyResult ==
    ( /\ pc \in {"Done", "Failed"}
      /\ \E i \in 1..Len(stages) : stages[i] = "ExtractingResult"
      /\ result = <<>> )
    => /\ pc = "Failed"
       /\ retval = <<>>
       /\ IsConversionFailed(raised)
       /\ FailedAt = "ExtractingResult"

C8_Witness ==
    /\ pc = "Failed"
    /\ FailedAt = "ExtractingResult"
    /\ result = <<>>
    /\ Len(convCalls) = 1
    /\ IsConversionFailed(raised)

\* C9: apply_conf and the convert operation are each called at most once per
\* call; a convert call comes after apply_conf has returned and gets the
\* validated file list and the tag apply_conf got, overwrite = false and
\* parallel_workers = 8.
C9_ConfigureThenConvert ==
    /\ Len(confCalls) <= 1
    /\ Len(convCalls) <= 1
    /\ convCalls # <<>> =>
          /\ Len(confCalls) = 1
          /\ \E i \in 1..Len(stages) : stages[i] = "Converting"
          /\ convCalls[1].audio_files = confCalls[1].audio_files
          /\ convCalls[1].audio_files = vres.val
          /\ convCalls[1].tag = confCalls[1].tag
          /\ convCalls[1].tag = random_tag
          /\ convCalls[1].overwrite = FALSE
          /\ convCalls[1].parallel_workers = 8

C9_Witness ==
    /\ Len(convCalls) = 1
    /\ Len(confCalls) = 1
    /\ pc = "Failed"
    /\ FailedAt = "Converting"

\* C10: when Validating, ProbingDuration, Tagging or ResolvingModel fails
\* (invalid input, a probe that raises, an unbound collaborator, a model that
\* is absent or has a wrong weights extension) the call ends in Failed with a
\* ConversionFailed error and apply_conf and convert are never called; the
\* registry is what it was when the call began.
C10_NoEngineCallOnEarlyFailure ==
    /\ MODELS = registry0
    /\ ( \/ (Validated /\ ~vres.ok)
         \/ Falsy(files_in) \/ SomeMissing
         \/ bound # Globals
         \/ FirstMatch(MODELS, model, 1) = <<>>
         \/ ~EndsWith(FirstMatch(MODELS, model, 1)[1].model, PthExt)
         \/ (pc = "Failed" /\ FailedAt \in {"Validating", "ProbingDuration",
                                            "Tagging", "ResolvingModel"}) )
       => /\ confCalls = <<>> /\ convCalls = <<>>
          /\ pc \notin {"AssemblingConfig", "Converting", "ExtractingResult", "Done"}
          /\ pc = "Failed" => IsConversionFailed(raised)

C10_Witness ==
    /\ pc = "Failed"
    /\ FailedAt = "ProbingDuration"
    /\ extFailed
    /\ IsConversionFailed(raised)
    /\ confCalls = <<>> /\ convCalls = <<>>

====
